---- MODULE Spec2Model ----
(***************************************************************************)
(* Wake-on-LAN sender (magicpacket), its two front ends (the web handler   *)
(* handleWake and the CLI command "send") and the reachability poller      *)
(* (getMachinesStatus / handleStatus).                                     *)
(*                                                                         *)
(*   SpecWake : one wake request (web or CLI) with MagicPacket.Send and    *)
(*              MagicPacket.Broadcast executed step by step.               *)
(*   SpecPoll : one status-streaming session with its poll cycles, one     *)
(*              goroutine per configured machine.                          *)
(***************************************************************************)
EXTENDS Integers, Sequences, FiniteSets, TLC

(***************************************************************************)
(* Bounds of the model.                                                    *)
(***************************************************************************)
MaxIfaces == 2      \* interfaces in one enumeration snapshot
MaxMachines == 2    \* machines in a polled configuration
MaxRecv == 1        \* echo replies a probe can report
MaxCycles == 2      \* poll cycles of one streaming session

(***************************************************************************)
(* Program constants.                                                      *)
(***************************************************************************)
PacketLen == 102        \* make([]byte, 102)
SyncLen == 6            \* for i := 0; i < 6; i++
MacCopies == 16         \* for i := 1; i <= 16; i++
WolPort == 9            \* Port: 9
IPv4len == 4            \* net.IPv4len
IPv6len == 16           \* net.IPv6len
PingCount == 1          \* pinger.Count = 1
PingTimeoutSec == 2     \* pinger.Timeout = 2 * time.Second

Min(a, b) == IF a < b THEN a ELSE b

(***************************************************************************)
(* Bytes and bit operations.                                               *)
(***************************************************************************)
RECURSIVE BitOr(_, _)
BitOr(a, b) ==
    IF a = 0 THEN b
    ELSE IF b = 0 THEN a
    ELSE (IF (a % 2 = 1) \/ (b % 2 = 1) THEN 1 ELSE 0) + 2 * BitOr(a \div 2, b \div 2)

\* ^x on a byte
BitNot(x) == 255 - x

(***************************************************************************)
(* Errors.  Every network attempt is numbered by its position in the       *)
(* attempt log, so that the error of one attempt is distinguishable from   *)
(* the error of another.                                                   *)
(***************************************************************************)
Nil == [kind |-> "nil", at |-> 0, wrapped |-> FALSE]
Err(kind, at) == [kind |-> kind, at |-> at, wrapped |-> FALSE]
\* fmt.Errorf("failed to send packet: %v (last error)", lastErr)
WrapLastErr(e) == [e EXCEPT !.wrapped = TRUE]

(***************************************************************************)
(* net.ParseMAC on a text given as a sequence of one-character strings.    *)
(***************************************************************************)
HexDigits ==
    [c \in {"0","1","2","3","4","5","6","7","8","9",
            "a","b","c","d","e","f","A","B","C","D","E","F"} |->
        CASE c = "0" -> 0  [] c = "1" -> 1  [] c = "2" -> 2  [] c = "3" -> 3
          [] c = "4" -> 4  [] c = "5" -> 5  [] c = "6" -> 6  [] c = "7" -> 7
          [] c = "8" -> 8  [] c = "9" -> 9
          [] c \in {"a", "A"} -> 10 [] c \in {"b", "B"} -> 11
          [] c \in {"c", "C"} -> 12 [] c \in {"d", "D"} -> 13
          [] c \in {"e", "E"} -> 14 [] c \in {"f", "F"} -> 15]

IsHex(c) == c \in DOMAIN HexDigits

\* xtoi2(s[x:], e): two hex digits at x, followed (if anything follows) by e.
\* e = "" stands for the call xtoi2(s[x:x+2], 0), which sees two characters only.
Xtoi2Ok(s, x, e) ==
    /\ x + 1 <= Len(s)
    /\ IsHex(s[x]) /\ IsHex(s[x + 1])
    /\ (e # "" /\ x + 2 <= Len(s)) => s[x + 2] = e

Xtoi2(s, x) == 16 * HexDigits[s[x]] + HexDigits[s[x + 1]]

MacLenOk(n) == n = 6 \/ n = 8 \/ n = 20

\* The form "xx:xx:..." or "xx-xx-...": every group is closed by s[2].
ParseMACSep(s) ==
    LET n == (Len(s) + 1) \div 3 IN
    IF /\ (Len(s) + 1) % 3 = 0
       /\ MacLenOk(n)
       /\ \A k \in 0 .. n - 1 : Xtoi2Ok(s, 3 * k + 1, s[3])
    THEN [ok |-> TRUE, hw |-> [k \in 1 .. n |-> Xtoi2(s, 3 * (k - 1) + 1)]]
    ELSE [ok |-> FALSE, hw |-> << >>]

\* The form "xxxx.xxxx.xxxx".
ParseMACDot(s) ==
    LET n == (2 * (Len(s) + 1)) \div 5 IN
    IF /\ (Len(s) + 1) % 5 = 0
       /\ MacLenOk(n)
       /\ \A g \in 0 .. (n \div 2) - 1 :
             /\ Xtoi2Ok(s, 5 * g + 1, "")
             /\ Xtoi2Ok(s, 5 * g + 3, s[5])
    THEN [ok |-> TRUE,
          hw |-> [k \in 1 .. n |->
                    Xtoi2(s, 5 * ((k - 1) \div 2) + 1 + 2 * ((k - 1) % 2))]]
    ELSE [ok |-> FALSE, hw |-> << >>]

ParseMAC(s) ==
    IF Len(s) < 14 THEN [ok |-> FALSE, hw |-> << >>]
    ELSE IF s[3] = ":" \/ s[3] = "-" THEN ParseMACSep(s)
    ELSE IF s[5] = "." THEN ParseMACDot(s)
    ELSE [ok |-> FALSE, hw |-> << >>]

(***************************************************************************)
(* The magic packet.  copy(dst, src) copies min(len(dst), len(src)) bytes. *)
(***************************************************************************)
CopyAt(dst, off, src) ==
    LET n == Min(Len(dst) - off, Len(src)) IN
    [k \in 1 .. Len(dst) |-> IF k > off /\ k <= off + n THEN src[k - off] ELSE dst[k]]

RECURSIVE CopyMac(_, _, _, _)
CopyMac(p, mac, i, last) ==
    IF i > last THEN p ELSE CopyMac(CopyAt(p, i * 6, mac), mac, i + 1, last)

\* variant: the copy loop starts at i = 0 and ends at i = 15
BroadcastPacketFromZero(mac) ==
    CopyMac([k \in 1 .. PacketLen |-> IF k <= SyncLen THEN 255 ELSE 0], mac, 0, MacCopies - 1)

\* MagicPacket.Broadcast, the packet it builds
BroadcastPacket(mac) ==
    CopyMac([k \in 1 .. PacketLen |-> IF k <= SyncLen THEN 255 ELSE 0], mac, 1, MacCopies)

\* MagicPacket.Send, the packet it builds
SendPacket(mac) ==
    CopyMac([k \in 1 .. PacketLen |-> IF k <= SyncLen THEN 255 ELSE 0], mac, 1, MacCopies)

(***************************************************************************)
(* Configuration (config.Machine: Name, Mac, optional IP).  The IP is a    *)
(* *string: << >> is the nil pointer, <<s>> a pointer to the string s.     *)
(***************************************************************************)
NoIP == << >>
SomeIP(s) == << s >>

MacColon == <<"0","0",":","1","1",":","2","2",":","a","A",":","f","f",":","0","1">>
MacHyphen == <<"0","1","-","0","2","-","0","3","-","0","4","-","0","5","-","f","E">>
MacDot == <<"0","0","1","1",".","2","2","3","3",".","4","4","5","5">>
MacEUI64 == <<"0","1",":","0","2",":","0","3",":","0","4",":","0","5",":","0","6",":","0","7",":","0","8">>
MacShort == <<"0","0",":","1","1",":","2","2",":","3","3",":","4","4">>
MacNonHex == <<"0","0",":","1","1",":","2","2",":","3","3",":","4","4",":","g","5">>
MacMixedSep == <<"0","0",":","1","1","-","2","2",":","3","3",":","4","4",":","5","5">>
MacBadSep == <<"0","0","_","1","1","_","2","2","_","3","3","_","4","4","_","5","5">>
MacEmpty == << >>

Machine(name, mac, ip) == [Name |-> name, Mac |-> mac, IP |-> ip]

WakeConfigs ==
    { << Machine("pc", MacColon, NoIP),
         Machine("nas", MacHyphen, SomeIP("10.0.0.5")),
         Machine("tv", MacNonHex, SomeIP("10.0.0.7")) >>,
      << Machine("nas", MacDot, SomeIP("")),
         Machine("pc", MacMixedSep, NoIP),
         Machine("TV", MacEUI64, SomeIP("10.0.0.9")),
         Machine("NAS", MacColon, SomeIP("10.0.0.9")) >>,
      << >> }

\* strings.EqualFold on the names used here
Fold(name) ==
    CASE name \in {"pc", "PC", "Pc"} -> "pc"
      [] name \in {"nas", "NAS"} -> "nas"
      [] name \in {"tv", "TV"} -> "tv"
      [] OTHER -> name

EqualFold(a, b) == Fold(a) = Fold(b)

ReqNames == {"Pc", "NAS", "tv", "laptop"}
CliMacs == {MacColon, MacShort, MacBadSep, MacEmpty}
\* the flags --ip and --port: the defaults, an IP alone, an IP and a port
CliTargets == { <<"", "9">>, <<"10.0.0.5", "9">>, <<"10.0.0.5", "4000">> }
Unset == << >>

(***************************************************************************)
(* net.Interfaces(): the snapshot of one enumeration.                      *)
(***************************************************************************)
Addr(ipnet, ip, mask) == [ipnet |-> ipnet, ip |-> ip, mask |-> mask]

Ones12 == [k \in 1 .. 12 |-> 255]
V4Mapped(ip4) == [k \in 1 .. 10 |-> 0] \o <<255, 255>> \o ip4

AddrLan == Addr(TRUE, <<192, 168, 1, 42>>, <<255, 255, 255, 0>>)
AddrWide == Addr(TRUE, <<10, 0, 0, 5>>, Ones12 \o <<255, 0, 0, 0>>)
AddrMapped == Addr(TRUE, V4Mapped(<<172, 16, 5, 9>>), <<255, 255, 240, 0>>)
AddrV6 == Addr(TRUE, <<254, 128>> \o [k \in 1 .. 13 |-> 0] \o <<1>>,
               [k \in 1 .. 16 |-> IF k <= 8 THEN 255 ELSE 0])
AddrOther == Addr(FALSE, <<192, 168, 9, 9>>, <<255, 255, 255, 0>>)
AddrLoop == Addr(TRUE, <<127, 0, 0, 1>>, <<255, 0, 0, 0>>)

Iface(name, loopback, up, bcast, addrsErr, addrs) ==
    [name |-> name, loopback |-> loopback, up |-> up, bcast |-> bcast,
     addrsErr |-> addrsErr, addrs |-> addrs]

IfaceSet ==
    { Iface("lo", TRUE, TRUE, FALSE, FALSE, <<AddrLoop>>),
      Iface("eth0", FALSE, TRUE, TRUE, FALSE, <<AddrLan>>),
      Iface("eth1", FALSE, TRUE, TRUE, FALSE, <<AddrV6, AddrWide, AddrMapped>>),
      Iface("wlan0", FALSE, TRUE, TRUE, FALSE, <<AddrOther>>),
      Iface("eth2", FALSE, FALSE, TRUE, FALSE, <<AddrLan>>),
      Iface("tun0", FALSE, TRUE, FALSE, FALSE, <<AddrWide>>),
      Iface("eth3", FALSE, TRUE, TRUE, TRUE, <<AddrLan>>),
      Iface("br0", FALSE, TRUE, TRUE, FALSE, << >>) }

RECURSIVE SeqsUpTo(_, _)
SeqsUpTo(S, n) ==
    IF n = 0 THEN { << >> }
    ELSE LET shorter == SeqsUpTo(S, n - 1) IN
         shorter \cup { Append(q, x) : q \in shorter, x \in S }

Snapshots == SeqsUpTo(IfaceSet, MaxIfaces)

\* variant: the FlagUp test is missing
SkipIfaceIgnoresUp(iface) == iface.loopback \/ ~iface.bcast

\* iface.Flags&net.FlagLoopback != 0 || iface.Flags&net.FlagUp == 0 ||
\* iface.Flags&net.FlagBroadcast == 0
SkipIface(iface) == iface.loopback \/ ~iface.up \/ ~iface.bcast

\* net.IP.To4: << >> is nil
To4(ip) ==
    IF Len(ip) = IPv4len THEN ip
    ELSE IF /\ Len(ip) = IPv6len
            /\ \A k \in 1 .. 10 : ip[k] = 0
            /\ ip[11] = 255 /\ ip[12] = 255
         THEN SubSeq(ip, 13, 16)
    ELSE << >>

\* mask = mask[12:] when the mask is in its 16-byte form
NarrowMask(mask, ip4) ==
    IF Len(mask) = IPv6len /\ Len(ip4) = IPv4len THEN SubSeq(mask, 13, 16) ELSE mask

\* variant: the mask is not complemented
BroadcastIPNoComplement(ip4, mask) == [k \in 1 .. Len(ip4) |-> BitOr(ip4[k], mask[k])]

\* broadcastIP[i] = ip4[i] | ^mask[i]
BroadcastIP(ip4, mask) == [k \in 1 .. Len(ip4) |-> BitOr(ip4[k], BitNot(mask[k]))]

\* addr.(*net.IPNet) succeeded and ipNet.IP.To4() != nil
SkipAddr(a) == ~a.ipnet \/ To4(a.ip) = << >>

BroadcastTarget(a) == BroadcastIP(To4(a.ip), NarrowMask(a.mask, To4(a.ip)))

IPv4bcast == <<255, 255, 255, 255>>

(***************************************************************************)
(* State.                                                                  *)
(***************************************************************************)
VARIABLES
    cfg,        \* cfg.Machines
    \* ---- one wake request (handleWake or sendCmd.Run)
    req,        \* the request: kind "none" | "web" | "cli", and its inputs
    pc,         \* position of the request's goroutine
    mac,        \* the parsed net.HardwareAddr
    addr,       \* the unicast "host:port" as <<host, port>>, << >> if none
    packet,     \* the packet built by the running Send or Broadcast
    ifaces,     \* Broadcast: the enumerated interfaces
    i,          \* Broadcast: index of the current interface
    j,          \* Broadcast: index of the current address
    sent,       \* Broadcast: var sent bool
    lastErr,    \* Broadcast: var lastErr error
    open,       \* attempts (indexes of netlog) whose socket is open
    netlog,     \* every socket open attempted so far, with its outcome
    sendErr,    \* what Send returned (<< >> if Send has not returned)
    bcastErr,   \* what Broadcast returned (<< >> if it has not returned)
    logged,     \* error lines written with log.Printf
    response,   \* what the request reported to the user
    \* ---- one status-streaming session (handleStatus)
    spc,        \* position of the session's goroutine
    cycle,      \* number of getMachinesStatus calls started
    task,       \* per machine index: position of its goroutine
    result,     \* per machine index: <<status, err>> of getMachineStatus
    probes,     \* per machine index: the pingers created in this cycle
    statuses,   \* the map of the running getMachinesStatus call
    mu,         \* holder of the call's mutex (0: unlocked)
    wg,         \* the call's WaitGroup counter
    spawned,    \* number of machines the spawn loop has passed
    returned,   \* the map the call returned (<< >> while it is running)
    ctxDone,    \* r.Context().Done() is closed
    tick,       \* a tick is waiting in ticker.C
    pushed,     \* number of events written to the client
    prev        \* the map the previous call returned (<< >> in the first cycle)

wakeVars == <<req, pc, mac, addr, packet, ifaces, i, j, sent, lastErr, open,
              netlog, sendErr, bcastErr, logged, response>>
pollVars == <<spc, cycle, task, result, probes, statuses, mu, wg, spawned, returned,
              ctxDone, tick, pushed, prev>>
vars == <<cfg, wakeVars, pollVars>>

NotReturned == << >>
Returned(e) == << e >>

NoReq == [kind |-> "none", name |-> "", macFlag |-> Unset, nameFlag |-> Unset,
          ip |-> "", port |-> ""]
WebReq(name) == [NoReq EXCEPT !.kind = "web", !.name = name]
CliReq(macFlag, nameFlag, ip, port) ==
    [NoReq EXCEPT !.kind = "cli", !.macFlag = macFlag, !.nameFlag = nameFlag,
                  !.ip = ip, !.port = port]

WakeIdle ==
    /\ req = NoReq /\ pc = "idle" /\ mac = << >> /\ addr = << >> /\ packet = << >>
    /\ ifaces = << >> /\ i = 0 /\ j = 0 /\ sent = FALSE /\ lastErr = Nil
    /\ open = {} /\ netlog = << >> /\ sendErr = NotReturned /\ bcastErr = NotReturned
    /\ logged = << >> /\ response = "none"

\* make(map[string]string)
EmptyMap == [n \in {} |-> "unknown"]

NoResult == << >>

PollIdle ==
    /\ spc = "idle" /\ cycle = 0
    /\ task = [k \in 1 .. Len(cfg) |-> "idle"]
    /\ result = [k \in 1 .. Len(cfg) |-> NoResult]
    /\ probes = [k \in 1 .. Len(cfg) |-> << >>]
    /\ statuses = EmptyMap /\ mu = 0 /\ wg = 0 /\ spawned = 0
    /\ returned = NotReturned
    /\ ctxDone = FALSE /\ tick = FALSE /\ pushed = 0
    /\ prev = NotReturned

(***************************************************************************)
(* The attempt log.                                                        *)
(***************************************************************************)
Attempt(via, dst, port, to, dialOk) ==
    [via |-> via, dst |-> dst, port |-> port, to |-> to,
     dial |-> IF dialOk THEN "ok" ELSE "err",
     write |-> "none", payload |-> << >>, closed |-> FALSE]

Written(a, writeOk, p) ==
    [a EXCEPT !.write = IF writeOk THEN "ok" ELSE "err", !.payload = p, !.closed = TRUE]

NextAt == Len(netlog) + 1

(***************************************************************************)
(* The front ends: lookup of the machine and of the MAC.                   *)
(***************************************************************************)
\* for _, m := range cfg.Machines { if strings.EqualFold(m.Name, name) ... break }
RECURSIVE FindFrom(_, _, _)
FindFrom(machines, name, k) ==
    IF k > Len(machines) THEN 0
    ELSE IF EqualFold(machines[k].Name, name) THEN k
    ELSE FindFrom(machines, name, k + 1)

FindMachine(machines, name) == FindFrom(machines, name, 1)

\* handleWake: machine.IP != nil && *machine.IP != ""
WakeHasIP(m) == m.IP # NoIP /\ m.IP[1] # ""

\* variant: a Send that succeeded makes up for a failed Broadcast
WakeResponseAnyPath(err) ==
    IF err # Nil /\ ~(sendErr # NotReturned /\ sendErr[1] = Nil) THEN "500" ELSE "303+flash"

\* handleWake: the answer after Broadcast returned err
WakeResponse(err) == IF err # Nil THEN "500" ELSE "303+flash"

\* sendCmd.Run: cobra.CheckErr(err) exits, otherwise "Magic packet sent"
CliResponse(err) == IF err # Nil THEN "exit1" ELSE "sent"

\* variant: a name that is not configured is not reported as an error
GetMacByNameNoCheck(machines, name) ==
    LET k == FindMachine(machines, name) IN
    IF k = 0 THEN [ok |-> TRUE, hw |-> << >>] ELSE ParseMAC(machines[k].Mac)

\* getMacByName
GetMacByName(machines, name) ==
    LET k == FindMachine(machines, name) IN
    IF k = 0 THEN [ok |-> FALSE, hw |-> << >>] ELSE ParseMAC(machines[k].Mac)

\* PreRunE: exactly one of --mac and --name
PreRunOk(macFlag, nameFlag) == (macFlag # Unset) # (nameFlag # Unset)

\* sendCmd.Run: the switch that retrieves the MAC
CliMac(machines, macFlag, nameFlag) ==
    IF macFlag # Unset THEN ParseMAC(macFlag[1])
    ELSE GetMacByName(machines, nameFlag[1])

(***************************************************************************)
(* handleWake (POST /wake) up to its first network call.                   *)
(***************************************************************************)
HandleWake(name) ==
    /\ pc = "idle" /\ req = NoReq
    /\ req' = WebReq(name)
    /\ LET k == FindMachine(cfg, name) IN
       IF k = 0
       THEN \* http.Error(w, "Machine not found", http.StatusBadRequest)
            /\ response' = "400" /\ pc' = "done"
            /\ UNCHANGED <<mac, addr>>
       ELSE LET parsed == ParseMAC(cfg[k].Mac) IN
            IF ~parsed.ok
            THEN \* http.Error(w, err.Error(), http.StatusBadRequest)
                 /\ response' = "400" /\ pc' = "done"
                 /\ UNCHANGED <<mac, addr>>
            ELSE /\ mac' = parsed.hw
                 /\ response' = response
                 /\ IF WakeHasIP(cfg[k])
                    THEN addr' = <<cfg[k].IP[1], "9">> /\ pc' = "s_build"
                    ELSE addr' = addr /\ pc' = "b_build"
    /\ UNCHANGED <<cfg, packet, ifaces, i, j, sent, lastErr, open, netlog,
                   sendErr, bcastErr, logged, pollVars>>

(***************************************************************************)
(* sendCmd: PreRunE and Run up to its network call.                        *)
(***************************************************************************)
SendCmdRun(macFlag, nameFlag, ip, port) ==
    /\ pc = "idle" /\ req = NoReq
    /\ req' = CliReq(macFlag, nameFlag, ip, port)
    /\ IF ~PreRunOk(macFlag, nameFlag)
       THEN /\ response' = "exit1" /\ pc' = "done"
            /\ UNCHANGED <<mac, addr>>
       ELSE LET parsed == CliMac(cfg, macFlag, nameFlag) IN
            IF ~parsed.ok
            THEN \* cobra.CheckErr(err)
                 /\ response' = "exit1" /\ pc' = "done"
                 /\ UNCHANGED <<mac, addr>>
            ELSE /\ mac' = parsed.hw
                 /\ response' = response
                 /\ IF ip # ""
                    THEN addr' = <<ip, port>> /\ pc' = "s_build"
                    ELSE addr' = addr /\ pc' = "b_build"
    /\ UNCHANGED <<cfg, packet, ifaces, i, j, sent, lastErr, open, netlog,
                   sendErr, bcastErr, logged, pollVars>>

(***************************************************************************)
(* MagicPacket.Send(addr)                                                  *)
(***************************************************************************)
SendBuild ==
    /\ pc = "s_build"
    /\ packet' = SendPacket(mac)
    /\ pc' = "s_dial"
    /\ UNCHANGED <<cfg, req, mac, addr, ifaces, i, j, sent, lastErr, open, netlog,
                   sendErr, bcastErr, logged, response, pollVars>>

\* conn, err := net.Dial("udp", addr)
SendDial(ok) ==
    /\ pc = "s_dial"
    /\ netlog' = Append(netlog, Attempt("unicast", << >>, 0, addr, ok))
    /\ IF ok
       THEN /\ open' = open \cup {NextAt}
            /\ pc' = "s_write"
            /\ sendErr' = sendErr
       ELSE /\ open' = open
            /\ sendErr' = Returned(Err("dial", NextAt))
            /\ pc' = "after_send"
    /\ UNCHANGED <<cfg, req, mac, addr, packet, ifaces, i, j, sent, lastErr,
                   bcastErr, logged, response, pollVars>>

\* _, err = conn.Write(packet); return err   (defer conn.Close())
SendWrite(ok) ==
    /\ pc = "s_write"
    /\ LET n == Len(netlog) IN
       /\ netlog' = [netlog EXCEPT ![n] = Written(@, ok, packet)]
       /\ open' = open \ {n}
       /\ sendErr' = Returned(IF ok THEN Nil ELSE Err("write", n))
    /\ pc' = "after_send"
    /\ UNCHANGED <<cfg, req, mac, addr, packet, ifaces, i, j, sent, lastErr,
                   bcastErr, logged, response, pollVars>>

\* handleWake: a failed Send is logged, Broadcast follows
HandleWakeAfterSend ==
    /\ pc = "after_send" /\ req.kind = "web"
    /\ logged' = IF sendErr[1] # Nil
                 THEN Append(logged, "Error sending unicast packet") ELSE logged
    /\ pc' = "b_build"
    /\ UNCHANGED <<cfg, req, mac, addr, packet, ifaces, i, j, sent, lastErr, open,
                   netlog, sendErr, bcastErr, response, pollVars>>

\* sendCmd.Run: cobra.CheckErr on the error of Send, else "Magic packet sent"
SendCmdAfterSend ==
    /\ pc = "after_send" /\ req.kind = "cli"
    /\ response' = CliResponse(sendErr[1])
    /\ pc' = "done"
    /\ UNCHANGED <<cfg, req, mac, addr, packet, ifaces, i, j, sent, lastErr, open,
                   netlog, sendErr, bcastErr, logged, pollVars>>

(***************************************************************************)
(* MagicPacket.Broadcast()                                                 *)
(***************************************************************************)
EnumErr == Err("enum", 0)

\* variant: the enumeration error is dropped and the fallback is tried
OnEnumErrFallback == [pc |-> "b_after", ret |-> NotReturned]

\* if err != nil { return err } after net.Interfaces()
OnEnumErr == [pc |-> "after_bcast", ret |-> Returned(EnumErr)]

\* variant: sent = (err == nil), so a later failure clears it
SentAfterLast(s, writeOk) == writeOk

\* sent = true after a write without error; a failure leaves sent as it is
SentAfter(s, writeOk) == s \/ writeOk

\* variant: the fallback is never tried
NeedFallbackNever(s) == FALSE

\* if !sent { ... fallback ... }
NeedFallback(s) == ~s

\* variant: the fallback's own error is always returned
FallbackDialErrOwn(err, last) == err

\* the fallback's DialUDP failed: lastErr, if any, is reported in its place
FallbackDialErr(err, last) == IF last # Nil THEN WrapLastErr(last) ELSE err

\* return err after the fallback's conn.Write
FallbackWriteErr(err) == err

\* variant: conn.Close() is skipped when the write failed
CloseAfterWriteOnSuccess(o, n, writeOk) == IF writeOk THEN o \ {n} ELSE o

\* conn.Close() right after conn.Write, whatever Write returned
CloseAfterWrite(o, n, writeOk) == o \ {n}

BroadcastBuild ==
    /\ pc = "b_build"
    /\ packet' = BroadcastPacket(mac)
    /\ pc' = "b_enum"
    /\ UNCHANGED <<cfg, req, mac, addr, ifaces, i, j, sent, lastErr, open, netlog,
                   sendErr, bcastErr, logged, response, pollVars>>

\* ifaces, err := net.Interfaces(); err != nil
BroadcastEnumerateFail ==
    /\ pc = "b_enum"
    /\ pc' = OnEnumErr.pc
    /\ bcastErr' = OnEnumErr.ret
    /\ UNCHANGED <<cfg, req, mac, addr, packet, ifaces, i, j, sent, lastErr, open,
                   netlog, sendErr, logged, response, pollVars>>

\* ifaces, err := net.Interfaces(); err == nil
BroadcastEnumerate(snapshot) ==
    /\ pc = "b_enum"
    /\ ifaces' = snapshot
    /\ i' = 1 /\ j' = 0
    /\ sent' = FALSE /\ lastErr' = Nil
    /\ pc' = "b_iface"
    /\ UNCHANGED <<cfg, req, mac, addr, packet, open, netlog, sendErr, bcastErr,
                   logged, response, pollVars>>

\* the interface is skipped by its flags, or iface.Addrs() failed
BroadcastSkipIface ==
    /\ pc = "b_iface" /\ i <= Len(ifaces)
    /\ SkipIface(ifaces[i]) \/ ifaces[i].addrsErr
    /\ i' = i + 1
    /\ UNCHANGED <<cfg, req, pc, mac, addr, packet, ifaces, j, sent, lastErr, open,
                   netlog, sendErr, bcastErr, logged, response, pollVars>>

BroadcastEnterIface ==
    /\ pc = "b_iface" /\ i <= Len(ifaces)
    /\ ~SkipIface(ifaces[i]) /\ ~ifaces[i].addrsErr
    /\ j' = 1
    /\ pc' = "b_addr"
    /\ UNCHANGED <<cfg, req, mac, addr, packet, ifaces, i, sent, lastErr, open,
                   netlog, sendErr, bcastErr, logged, response, pollVars>>

\* the address is not an *net.IPNet or has no 4-byte form
BroadcastSkipAddr ==
    /\ pc = "b_addr" /\ j <= Len(ifaces[i].addrs)
    /\ SkipAddr(ifaces[i].addrs[j])
    /\ j' = j + 1
    /\ UNCHANGED <<cfg, req, pc, mac, addr, packet, ifaces, i, sent, lastErr, open,
                   netlog, sendErr, bcastErr, logged, response, pollVars>>

\* conn, err := net.DialUDP("udp", nil, addr)
BroadcastDial(ok) ==
    /\ pc = "b_addr" /\ j <= Len(ifaces[i].addrs)
    /\ ~SkipAddr(ifaces[i].addrs[j])
    /\ netlog' = Append(netlog,
          Attempt("iface", BroadcastTarget(ifaces[i].addrs[j]), WolPort, << >>, ok))
    /\ IF ok
       THEN /\ open' = open \cup {NextAt}
            /\ pc' = "b_write"
            /\ UNCHANGED <<j, lastErr>>
       ELSE /\ lastErr' = Err("dial", NextAt)
            /\ j' = j + 1
            /\ UNCHANGED <<open, pc>>
    /\ UNCHANGED <<cfg, req, mac, addr, packet, ifaces, i, sent, sendErr, bcastErr,
                   logged, response, pollVars>>

\* _, err = conn.Write(packet); conn.Close()
BroadcastWrite(ok) ==
    /\ pc = "b_write"
    /\ LET n == Len(netlog) IN
       /\ netlog' = [netlog EXCEPT ![n] = Written(@, ok, packet)]
       /\ open' = CloseAfterWrite(open, n, ok)
       /\ lastErr' = IF ok THEN lastErr ELSE Err("write", n)
    /\ sent' = SentAfter(sent, ok)
    /\ j' = j + 1
    /\ pc' = "b_addr"
    /\ UNCHANGED <<cfg, req, mac, addr, packet, ifaces, i, sendErr, bcastErr,
                   logged, response, pollVars>>

\* the addresses of the interface are exhausted
BroadcastAddrsDone ==
    /\ pc = "b_addr" /\ j > Len(ifaces[i].addrs)
    /\ i' = i + 1
    /\ pc' = "b_iface"
    /\ UNCHANGED <<cfg, req, mac, addr, packet, ifaces, j, sent, lastErr, open,
                   netlog, sendErr, bcastErr, logged, response, pollVars>>

\* the interfaces are exhausted
BroadcastIfacesDone ==
    /\ pc = "b_iface" /\ i > Len(ifaces)
    /\ pc' = "b_after"
    /\ UNCHANGED <<cfg, req, mac, addr, packet, ifaces, i, j, sent, lastErr, open,
                   netlog, sendErr, bcastErr, logged, response, pollVars>>

\* sent: return nil
BroadcastSucceed ==
    /\ pc = "b_after" /\ ~NeedFallback(sent)
    /\ bcastErr' = Returned(Nil)
    /\ pc' = "after_bcast"
    /\ UNCHANGED <<cfg, req, mac, addr, packet, ifaces, i, j, sent, lastErr, open,
                   netlog, sendErr, logged, response, pollVars>>

\* !sent: conn, err := net.DialUDP("udp", nil, 255.255.255.255:9)
BroadcastFallbackDial(ok) ==
    /\ pc = "b_after" /\ NeedFallback(sent)
    /\ netlog' = Append(netlog, Attempt("global", IPv4bcast, WolPort, << >>, ok))
    /\ IF ok
       THEN /\ open' = open \cup {NextAt}
            /\ pc' = "b_fwrite"
            /\ bcastErr' = bcastErr
       ELSE /\ open' = open
            /\ bcastErr' = Returned(FallbackDialErr(Err("dial", NextAt), lastErr))
            /\ pc' = "after_bcast"
    /\ UNCHANGED <<cfg, req, mac, addr, packet, ifaces, i, j, sent, lastErr,
                   sendErr, logged, response, pollVars>>

\* _, err = conn.Write(packet); return err   (defer conn.Close())
BroadcastFallbackWrite(ok) ==
    /\ pc = "b_fwrite"
    /\ LET n == Len(netlog) IN
       /\ netlog' = [netlog EXCEPT ![n] = Written(@, ok, packet)]
       /\ open' = open \ {n}
       /\ bcastErr' = Returned(FallbackWriteErr(IF ok THEN Nil ELSE Err("write", n)))
    /\ pc' = "after_bcast"
    /\ UNCHANGED <<cfg, req, mac, addr, packet, ifaces, i, j, sent, lastErr,
                   sendErr, logged, response, pollVars>>

\* handleWake: the answer
HandleWakeAfterBroadcast ==
    /\ pc = "after_bcast" /\ req.kind = "web"
    /\ logged' = IF bcastErr[1] # Nil
                 THEN Append(logged, "Error sending magic packet") ELSE logged
    /\ response' = WakeResponse(bcastErr[1])
    /\ pc' = "done"
    /\ UNCHANGED <<cfg, req, mac, addr, packet, ifaces, i, j, sent, lastErr, open,
                   netlog, sendErr, bcastErr, pollVars>>

\* sendCmd.Run: cobra.CheckErr on the error of Broadcast, else "Magic packet sent"
SendCmdAfterBroadcast ==
    /\ pc = "after_bcast" /\ req.kind = "cli"
    /\ response' = CliResponse(bcastErr[1])
    /\ pc' = "done"
    /\ UNCHANGED <<cfg, req, mac, addr, packet, ifaces, i, j, sent, lastErr, open,
                   netlog, sendErr, bcastErr, logged, pollVars>>

(***************************************************************************)
(* One wake request.                                                       *)
(***************************************************************************)
InitWake ==
    /\ cfg \in WakeConfigs
    /\ WakeIdle
    /\ PollIdle

NextWake ==
    \/ \E name \in ReqNames : HandleWake(name)
    \/ \E m \in {Unset} \cup {<<t>> : t \in CliMacs},
          n \in {Unset} \cup {<<t>> : t \in ReqNames},
          t \in CliTargets : SendCmdRun(m, n, t[1], t[2])
    \/ SendBuild
    \/ \E ok \in BOOLEAN : SendDial(ok)
    \/ \E ok \in BOOLEAN : SendWrite(ok)
    \/ HandleWakeAfterSend
    \/ SendCmdAfterSend
    \/ BroadcastBuild
    \/ BroadcastEnumerateFail
    \/ \E snapshot \in Snapshots : BroadcastEnumerate(snapshot)
    \/ BroadcastSkipIface
    \/ BroadcastEnterIface
    \/ BroadcastSkipAddr
    \/ \E ok \in BOOLEAN : BroadcastDial(ok)
    \/ \E ok \in BOOLEAN : BroadcastWrite(ok)
    \/ BroadcastAddrsDone
    \/ BroadcastIfacesDone
    \/ BroadcastSucceed
    \/ \E ok \in BOOLEAN : BroadcastFallbackDial(ok)
    \/ \E ok \in BOOLEAN : BroadcastFallbackWrite(ok)
    \/ HandleWakeAfterBroadcast
    \/ SendCmdAfterBroadcast

SpecWake == InitWake /\ [][NextWake]_vars

(***************************************************************************)
(* The reachability poller.                                                *)
(***************************************************************************)
PollNames == <<"pc", "nas", "tv", "laptop">>
PollIPs == {NoIP, SomeIP(""), SomeIP("10.0.0.5")}

\* configurations of up to MaxMachines machines; the k-th machine has the k-th name
PollConfigs ==
    { [k \in 1 .. Len(ips) |-> Machine(PollNames[k], MacColon, ips[k])] :
        ips \in SeqsUpTo(PollIPs, MaxMachines) }

\* what the pinger does: NewPinger fails, Run fails, or Run ends with recv replies
Outcome(ctorOk, runOk, recv) == [ctorOk |-> ctorOk, runOk |-> runOk, recv |-> recv]

\* probing.NewPinger resolves the address and rejects the empty one
ProbeOutcomes(a) ==
    IF a = "" THEN { Outcome(FALSE, FALSE, 0) }
    ELSE { Outcome(FALSE, FALSE, 0), Outcome(TRUE, FALSE, 0) }
           \cup { Outcome(TRUE, TRUE, r) : r \in 0 .. MaxRecv }

\* the pinger isAddressReachable created, as configured and as it ended
Pinger(a, o) ==
    [addr |-> a, count |-> PingCount, timeout |-> PingTimeoutSec,
     ctor |-> IF o.ctorOk THEN "ok" ELSE "err",
     run |-> IF ~o.ctorOk THEN "none" ELSE IF o.runOk THEN "ok" ELSE "err",
     recv |-> o.recv]

\* variant: one reply is not enough
ReachableMoreThanOne(recv) == recv > 1

\* stats.PacketsRecv == 0 -> false, otherwise true
Reachable(recv) == recv # 0

IsAddressReachable(o) ==
    IF ~o.ctorOk THEN [reachable |-> FALSE, err |-> Err("creating pinger", 0)]
    ELSE IF ~o.runOk THEN [reachable |-> FALSE, err |-> Err("pinging", 0)]
    ELSE [reachable |-> Reachable(o.recv), err |-> Nil]

\* getMachineStatus: if machine.IP == nil
StatusHasNoIP(m) == m.IP = NoIP

\* getMachineStatus, after isAddressReachable returned r
StatusOf(r) ==
    IF r.err # Nil THEN [status |-> "unknown", err |-> r.err]
    ELSE IF r.reachable THEN [status |-> "online", err |-> Nil]
    ELSE [status |-> "offline", err |-> Nil]

\* getMachinesStatus: if err != nil { log; return } skips the write to the map
TaskSkipsWrite(r) == r.err # Nil

\* statuses[name] = status
MapPut(m, name, status) ==
    [n \in DOMAIN m \cup {name} |-> IF n = name THEN status ELSE m[n]]

Machines == 1 .. Len(cfg)

\* variant: the goroutine reads the loop variable instead of its own copy
TaskMachineShared(k) == cfg[spawned]

\* go func(machine config.Machine) {...}(machine): the k-th goroutine works on
\* its own copy of the k-th machine
TaskMachine(k) == cfg[k]

\* variant: the call does not wait for its goroutines
WaitReturnsAtOnce(w) == TRUE

\* wg.Wait() returns when the counter is zero
WaitReturns(w) == w = 0

\* variant: the early return on an error does not reach wg.Done()
WgAfterFailNoDone(w) == w

\* defer wg.Done() also runs on the early return
WgAfterFail(w) == w - 1

\* variant: the lock is taken although it is held
LockFreeAlways(m) == TRUE

\* mu.Lock() goes through when the mutex is not held
LockFree(m) == m = 0

\* GET /status: handleStatus sets the headers and sends the initial status;
\* getMachinesStatus starts with a fresh map, mutex and WaitGroup
\* variant: the map outlives the call (a map shared by all calls)
StartBatchSharedMap ==
    /\ cycle' = cycle + 1
    /\ task' = [k \in Machines |-> "idle"]
    /\ result' = [k \in Machines |-> NoResult]
    /\ probes' = [k \in Machines |-> << >>]
    /\ statuses' = statuses
    /\ mu' = 0 /\ wg' = 0 /\ spawned' = 0
    /\ prev' = returned
    /\ returned' = NotReturned
    /\ spc' = "spawn"

StartBatch ==
    /\ cycle' = cycle + 1
    /\ task' = [k \in Machines |-> "idle"]
    /\ result' = [k \in Machines |-> NoResult]
    /\ probes' = [k \in Machines |-> << >>]
    /\ statuses' = EmptyMap
    /\ mu' = 0 /\ wg' = 0 /\ spawned' = 0
    /\ prev' = returned
    /\ returned' = NotReturned
    /\ spc' = "spawn"

HandleStatus ==
    /\ spc = "idle"
    /\ StartBatch
    /\ UNCHANGED <<cfg, wakeVars, ctxDone, tick, pushed>>

\* wg.Add(1); go func(machine) {...}(machine)
Spawn ==
    /\ spc = "spawn" /\ spawned < Len(cfg)
    /\ spawned' = spawned + 1
    /\ wg' = wg + 1
    /\ task' = [task EXCEPT ![spawned + 1] = "start"]
    /\ UNCHANGED <<cfg, wakeVars, prev, spc, cycle, result, probes, statuses, mu,
                   returned, ctxDone, tick, pushed>>

\* getMachineStatus of a machine without IP
TaskNoIP(k) ==
    /\ task[k] = "start"
    /\ StatusHasNoIP(TaskMachine(k))
    /\ result' = [result EXCEPT ![k] = [status |-> "unknown", err |-> Nil]]
    /\ task' = [task EXCEPT ![k] = "got"]
    /\ UNCHANGED <<cfg, wakeVars, prev, spc, cycle, probes, statuses, mu, wg, spawned,
                   returned, ctxDone, tick, pushed>>

\* getMachineStatus of a machine with IP: isAddressReachable(*machine.IP)
TaskProbe(k, o) ==
    /\ task[k] = "start"
    /\ ~StatusHasNoIP(TaskMachine(k))
    /\ o \in ProbeOutcomes(TaskMachine(k).IP[1])
    /\ probes' = [probes EXCEPT ![k] = Append(@, Pinger(TaskMachine(k).IP[1], o))]
    /\ result' = [result EXCEPT ![k] = StatusOf(IsAddressReachable(o))]
    /\ task' = [task EXCEPT ![k] = "got"]
    /\ UNCHANGED <<cfg, wakeVars, prev, spc, cycle, statuses, mu, wg, spawned,
                   returned, ctxDone, tick, pushed>>

\* err != nil: log.Printf, return; the deferred wg.Done() runs
TaskFail(k) ==
    /\ task[k] = "got"
    /\ TaskSkipsWrite(result[k])
    /\ wg' = WgAfterFail(wg)
    /\ task' = [task EXCEPT ![k] = "done"]
    /\ UNCHANGED <<cfg, wakeVars, prev, spc, cycle, result, probes, statuses, mu, spawned,
                   returned, ctxDone, tick, pushed>>

\* mu.Lock()
TaskLock(k) ==
    /\ task[k] = "got"
    /\ ~TaskSkipsWrite(result[k])
    /\ LockFree(mu)
    /\ mu' = k
    /\ task' = [task EXCEPT ![k] = "locked"]
    /\ UNCHANGED <<cfg, wakeVars, prev, spc, cycle, result, probes, statuses, wg, spawned,
                   returned, ctxDone, tick, pushed>>

\* statuses[machine.Name] = status
TaskWrite(k) ==
    /\ task[k] = "locked"
    /\ statuses' = MapPut(statuses, TaskMachine(k).Name, result[k].status)
    /\ task' = [task EXCEPT ![k] = "written"]
    /\ UNCHANGED <<cfg, wakeVars, prev, spc, cycle, result, probes, mu, wg, spawned,
                   returned, ctxDone, tick, pushed>>

\* mu.Unlock()
TaskUnlock(k) ==
    /\ task[k] = "written"
    /\ mu' = 0
    /\ task' = [task EXCEPT ![k] = "unlocked"]
    /\ UNCHANGED <<cfg, wakeVars, prev, spc, cycle, result, probes, statuses, wg, spawned,
                   returned, ctxDone, tick, pushed>>

\* the deferred wg.Done()
TaskDone(k) ==
    /\ task[k] = "unlocked"
    /\ wg' = wg - 1
    /\ task' = [task EXCEPT ![k] = "done"]
    /\ UNCHANGED <<cfg, wakeVars, prev, spc, cycle, result, probes, statuses, mu, spawned,
                   returned, ctxDone, tick, pushed>>

\* wg.Wait(); return statuses
BatchReturn ==
    /\ spc = "spawn" /\ spawned = Len(cfg)
    /\ WaitReturns(wg)
    /\ returned' = Returned(statuses)
    /\ spc' = "send"
    /\ UNCHANGED <<cfg, wakeVars, prev, cycle, task, result, probes, statuses, mu, wg,
                   spawned, ctxDone, tick, pushed>>

\* sendMachinesStatus: marshal, write "data: ...", flush; a failed write is logged
SendMachinesStatus(ok) ==
    /\ spc = "send"
    /\ pushed' = IF ok THEN pushed + 1 ELSE pushed
    /\ spc' = "select"
    /\ UNCHANGED <<cfg, wakeVars, prev, cycle, task, result, probes, statuses, mu, wg,
                   spawned, returned, ctxDone, tick>>

\* the client goes away
CtxCancel ==
    /\ spc = "select" /\ ~ctxDone
    /\ ctxDone' = TRUE
    /\ UNCHANGED <<cfg, wakeVars, prev, spc, cycle, task, result, probes, statuses, mu, wg,
                   spawned, returned, tick, pushed>>

\* the ticker fires (ticker.C holds one tick)
TickerFire ==
    /\ spc = "select" /\ ~tick
    /\ tick' = TRUE
    /\ UNCHANGED <<cfg, wakeVars, prev, spc, cycle, task, result, probes, statuses, mu, wg,
                   spawned, returned, ctxDone, pushed>>

\* select: case <-r.Context().Done(): return
SelectDone ==
    /\ spc = "select" /\ ctxDone
    /\ spc' = "closed"
    /\ UNCHANGED <<cfg, wakeVars, prev, cycle, task, result, probes, statuses, mu, wg,
                   spawned, returned, ctxDone, tick, pushed>>

\* select: case <-ticker.C: sendMachinesStatus()
SelectTick ==
    /\ spc = "select" /\ tick
    /\ cycle < MaxCycles
    /\ tick' = FALSE
    /\ StartBatch
    /\ UNCHANGED <<cfg, wakeVars, ctxDone, pushed>>

InitPoll ==
    /\ cfg \in PollConfigs
    /\ WakeIdle
    /\ PollIdle

NextPoll ==
    \/ HandleStatus
    \/ Spawn
    \/ \E k \in Machines : TaskNoIP(k)
    \/ \E k \in Machines, o \in ProbeOutcomes("10.0.0.5") : TaskProbe(k, o)
    \/ \E k \in Machines : TaskFail(k)
    \/ \E k \in Machines : TaskLock(k)
    \/ \E k \in Machines : TaskWrite(k)
    \/ \E k \in Machines : TaskUnlock(k)
    \/ \E k \in Machines : TaskDone(k)
    \/ BatchReturn
    \/ \E ok \in BOOLEAN : SendMachinesStatus(ok)
    \/ CtxCancel
    \/ TickerFire
    \/ SelectDone
    \/ SelectTick

SpecPoll == InitPoll /\ [][NextPoll]_vars

(***************************************************************************)
(* One getMachinesStatus call (the first of a session) under the Go        *)
(* scheduler: a goroutine that can run is eventually run, a probe          *)
(* eventually returns.                                                     *)
(***************************************************************************)
\* the steps of the k-th goroutine
TaskStep(k) ==
    /\ k \in Machines
    /\ \/ TaskNoIP(k)
       \/ \E o \in ProbeOutcomes("10.0.0.5") : TaskProbe(k, o)
       \/ TaskFail(k)
       \/ TaskLock(k)
       \/ TaskWrite(k)
       \/ TaskUnlock(k)
       \/ TaskDone(k)

\* the steps of the calling goroutine
CallerStep == HandleStatus \/ Spawn \/ BatchReturn

NextCall ==
    \/ HandleStatus
    \/ Spawn
    \/ \E k \in Machines : TaskNoIP(k)
    \/ \E k \in Machines, o \in ProbeOutcomes("10.0.0.5") : TaskProbe(k, o)
    \/ \E k \in Machines : TaskFail(k)
    \/ \E k \in Machines : TaskLock(k)
    \/ \E k \in Machines : TaskWrite(k)
    \/ \E k \in Machines : TaskUnlock(k)
    \/ \E k \in Machines : TaskDone(k)
    \/ BatchReturn

SpecCall ==
    /\ InitPoll
    /\ [][NextCall]_vars
    /\ WF_vars(CallerStep)
    /\ \A k \in 1 .. MaxMachines : WF_vars(TaskStep(k))

(***************************************************************************)
(* Vocabulary of the properties.                                           *)
(***************************************************************************)
Attempts == 1 .. Len(netlog)
IfaceAttempts == { k \in Attempts : netlog[k].via = "iface" }
GlobalAttempts == { k \in Attempts : netlog[k].via = "global" }
UnicastAttempts == { k \in Attempts : netlog[k].via = "unicast" }
AttemptOk(k) == netlog[k].dial = "ok" /\ netlog[k].write = "ok"
AttemptFailed(k) == netlog[k].dial = "err" \/ netlog[k].write = "err"
\* the error the k-th attempt itself produced
OwnErr(k) == Err(IF netlog[k].dial = "err" THEN "dial" ELSE "write", k)

BroadcastReturned == bcastErr # NotReturned
SendReturned == sendErr # NotReturned
\* net.Interfaces() succeeded: the loop index has been set
Enumerated == i >= 1
ReportedSuccess == response \in {"303+flash", "sent"}
ConfiguredNames == { cfg[k].Name : k \in Machines }
TaskHasResult(k) == result[k] # NoResult

(***************************************************************************)
(* C1. Every map getMachinesStatus returns has exactly one entry per       *)
(* configured machine name, and a machine whose probe (construction or     *)
(* run) returned an error is in the map with the value "unknown".          *)
(***************************************************************************)
C1_EveryMachineReported ==
    returned # NotReturned =>
        /\ DOMAIN returned[1] = ConfiguredNames
        /\ \A k \in Machines :
              result[k].err # Nil =>
                  /\ cfg[k].Name \in DOMAIN returned[1]
                  /\ returned[1][cfg[k].Name] = "unknown"

(***************************************************************************)
(* C2. Original statement: when the fallback attempt on 255.255.255.255:9  *)
(* fails (at open or at write), Broadcast returns the error of that        *)
(* fallback attempt itself.                                                *)
(***************************************************************************)
FallbackFailed ==
    /\ BroadcastReturned
    /\ GlobalAttempts # {}
    /\ AttemptFailed(Len(netlog))

C2_FallbackErrorReturned ==
    FallbackFailed => bcastErr[1] = OwnErr(Len(netlog))

(***************************************************************************)
(* C2, amended. When the fallback attempt fails at write, or fails at open *)
(* after no per-interface attempt had failed, Broadcast returns the        *)
(* fallback's own error; when it fails at open after some per-interface    *)
(* attempt had failed, Broadcast returns the error of the last failed      *)
(* per-interface attempt, wrapped as "failed to send packet: ... (last     *)
(* error)".                                                                *)
(***************************************************************************)
FailedIfaceAttempts == { k \in IfaceAttempts : AttemptFailed(k) }
LastOf(S) == CHOOSE k \in S : \A m \in S : m <= k

C2_FallbackOrLastError ==
    FallbackFailed =>
        bcastErr[1] =
            IF netlog[Len(netlog)].dial = "err" /\ FailedIfaceAttempts # {}
            THEN WrapLastErr(OwnErr(LastOf(FailedIfaceAttempts)))
            ELSE OwnErr(Len(netlog))

C2_Witness ==
    /\ FallbackFailed
    /\ netlog[Len(netlog)].dial = "err"
    /\ Cardinality(FailedIfaceAttempts) >= 2
    /\ bcastErr[1].wrapped

(***************************************************************************)
(* C3. Original statement: a finished wake request reports success as soon *)
(* as one delivery path succeeded, Send or Broadcast.                      *)
(***************************************************************************)
SendSucceeded == SendReturned /\ sendErr[1] = Nil
BroadcastSucceeded == BroadcastReturned /\ bcastErr[1] = Nil

C3_AnyPathReportsSuccess ==
    (pc = "done" /\ (SendSucceeded \/ BroadcastSucceeded)) => ReportedSuccess

(***************************************************************************)
(* C3, amended. A finished wake request reports success exactly when the   *)
(* last delivery call it made succeeded: if Broadcast was called (always   *)
(* in handleWake, in the CLI without --ip), success is reported iff        *)
(* Broadcast succeeded, whatever the outcome of Send, so handleWake        *)
(* answers 500 after a successful Send followed by a failed Broadcast; if  *)
(* only Send was called (CLI with --ip), success is reported iff Send      *)
(* succeeded.                                                              *)
(***************************************************************************)
C3_LastPathDecides ==
    (pc = "done" /\ (SendReturned \/ BroadcastReturned)) =>
        /\ BroadcastReturned => (ReportedSuccess <=> bcastErr[1] = Nil)
        /\ (~BroadcastReturned) => (ReportedSuccess <=> sendErr[1] = Nil)

C3_Witness ==
    /\ pc = "done" /\ req.kind = "web"
    /\ SendSucceeded
    /\ BroadcastReturned /\ bcastErr[1] # Nil
    /\ response = "500"

(***************************************************************************)
(* C4. Once one per-interface send of Broadcast succeeded (open and write  *)
(* without error), no attempt on the global broadcast address is made, and *)
(* Broadcast returns nil, whatever the other per-interface outcomes and    *)
(* their order.                                                            *)
(***************************************************************************)
SomeIfaceOk == \E k \in IfaceAttempts : AttemptOk(k)

C4_OneSuccessSuffices ==
    SomeIfaceOk =>
        /\ GlobalAttempts = {}
        /\ BroadcastReturned => bcastErr[1] = Nil

C4_Witness ==
    /\ BroadcastReturned /\ bcastErr[1] = Nil
    /\ \E a, b, c \in IfaceAttempts :
          /\ a < b /\ b < c
          /\ AttemptFailed(a) /\ AttemptOk(b) /\ AttemptFailed(c)

(***************************************************************************)
(* C5. If the enumeration succeeded and no per-interface send succeeded    *)
(* (also when there was none), Broadcast makes exactly one attempt on      *)
(* 255.255.255.255 port 9, after all per-interface attempts, and returns   *)
(* nil if that attempt's open and write both succeed.                      *)
(***************************************************************************)
C5_OneFallbackAttempt ==
    /\ Cardinality(GlobalAttempts) <= 1
    /\ \A g \in GlobalAttempts :
          /\ netlog[g].dst = IPv4bcast /\ netlog[g].port = 9
          /\ \A k \in IfaceAttempts : k < g
          /\ g = Len(netlog)
    /\ (BroadcastReturned /\ Enumerated /\ ~SomeIfaceOk) =>
          /\ Cardinality(GlobalAttempts) = 1
          /\ AttemptOk(Len(netlog)) => bcastErr[1] = Nil

C5_Witness ==
    /\ BroadcastReturned /\ bcastErr[1] = Nil
    /\ Cardinality(FailedIfaceAttempts) >= 2
    /\ GlobalAttempts = {Len(netlog)}
    /\ AttemptOk(Len(netlog))

(***************************************************************************)
(* C6. If net.Interfaces() fails, Broadcast returns that error and opens   *)
(* no socket and writes nothing, neither to an interface's broadcast       *)
(* address nor to the global one.                                          *)
(***************************************************************************)
C6_EnumerationErrorIsFatal ==
    (pc \in {"b_iface", "b_addr", "b_write", "b_after", "b_fwrite", "after_bcast"}
        \/ BroadcastReturned) /\ ~Enumerated =>
        /\ bcastErr = Returned(EnumErr)
        /\ IfaceAttempts = {} /\ GlobalAttempts = {}
        /\ open = {}

C6_Witness ==
    /\ pc = "done"
    /\ bcastErr = Returned(EnumErr)
    /\ SendSucceeded
    /\ response = "500"

(***************************************************************************)
(* C7. When a target IP is configured (web) or supplied (CLI --ip), Send   *)
(* is attempted first, its failure is only logged, Broadcast is attempted  *)
(* afterwards and alone decides the reported outcome.                      *)
(***************************************************************************)
C7_SendThenBroadcast ==
    (pc = "done" /\ addr # << >>) =>
        /\ SendReturned /\ BroadcastReturned
        /\ UnicastAttempts # {}
        /\ \A u \in UnicastAttempts : \A k \in IfaceAttempts \cup GlobalAttempts : u < k
        /\ ReportedSuccess <=> bcastErr[1] = Nil

(***************************************************************************)
(* C8. A machine without configured address (IP absent, or present and     *)
(* empty) gets the status "unknown" and no pinger is created or run for it *)
(* in the poll cycle.                                                      *)
(***************************************************************************)
NoConfiguredAddress(m) == m.IP = NoIP \/ m.IP = SomeIP("")

C8_NoProbeWithoutAddress ==
    \A k \in Machines :
        NoConfiguredAddress(cfg[k]) =>
            /\ probes[k] = << >>
            /\ TaskHasResult(k) => result[k].status = "unknown"

(***************************************************************************)
(* C9. For a machine with an IP whose probe ran without error, exactly one *)
(* pinger was used in the cycle, with Count 1 and a 2 second timeout, and  *)
(* the machine's status, also in the returned map, is "online" iff at      *)
(* least one reply was received and "offline" otherwise.                   *)
(***************************************************************************)
ProbedWithoutError(k) == TaskHasResult(k) /\ cfg[k].IP # NoIP /\ result[k].err = Nil

C9_OnlineIffReply ==
    /\ \A k \in Machines : Len(probes[k]) <= 1
    /\ \A k \in Machines :
          ProbedWithoutError(k) =>
              /\ Len(probes[k]) = 1
              /\ probes[k][1].count = 1 /\ probes[k][1].timeout = 2
              /\ probes[k][1].addr = cfg[k].IP[1]
              /\ result[k].status = IF probes[k][1].recv >= 1 THEN "online" ELSE "offline"
              /\ returned # NotReturned =>
                    /\ cfg[k].Name \in DOMAIN returned[1]
                    /\ returned[1][cfg[k].Name] = result[k].status

C9_Witness ==
    /\ returned # NotReturned
    /\ \E k, m \in Machines :
          /\ ProbedWithoutError(k) /\ probes[k][1].recv >= 1
          /\ returned[1][cfg[k].Name] = "online"
          /\ ProbedWithoutError(m) /\ probes[m][1].recv = 0
          /\ returned[1][cfg[m].Name] = "offline"

(***************************************************************************)
(* C10. For a 6-byte hardware address, every payload Send or Broadcast     *)
(* writes has 102 bytes: six bytes 0xFF, then the address 16 times; the    *)
(* payloads of Send and of Broadcast in one request are the same.          *)
(***************************************************************************)
WrittenAttempts == { k \in Attempts : netlog[k].write # "none" }

MagicPayload(p, m) ==
    /\ Len(p) = 102
    /\ \A k \in 1 .. 6 : p[k] = 255
    /\ \A n \in 0 .. 15 : \A k \in 1 .. 6 : p[6 + 6 * n + k] = m[k]

C10_PayloadLayout ==
    Len(mac) = 6 =>
        /\ \A k \in WrittenAttempts : MagicPayload(netlog[k].payload, mac)
        /\ \A a, b \in WrittenAttempts : netlog[a].payload = netlog[b].payload

C10_Witness ==
    /\ Len(mac) = 6
    /\ \E u \in UnicastAttempts \cap WrittenAttempts :
       \E b \in IfaceAttempts \cap WrittenAttempts :
       \E g \in GlobalAttempts \cap WrittenAttempts : mac # <<255, 255, 255, 255, 255, 255>>

(***************************************************************************)
(* C11. The destination of a per-interface attempt is, octet by octet, the *)
(* IPv4 address OR the complement of the mask (the last 4 bytes of a       *)
(* 16-byte mask), with port 9: 192.168.1.42/255.255.255.0 gives            *)
(* 192.168.1.255 and 10.0.0.5/255.0.0.0 gives 10.255.255.255.              *)
(***************************************************************************)
Bit(x, b) == (x \div (2 ^ b)) % 2
Last4(q) == [k \in 1 .. 4 |-> q[Len(q) - 4 + k]]

\* d is ip OR NOT m, bit by bit
IsDirectedBroadcast(d, ip, m) ==
    /\ Len(d) = 4
    /\ \A k \in 1 .. 4 : \A b \in 0 .. 7 :
          Bit(d[k], b) = IF Bit(ip[k], b) = 1 \/ Bit(m[k], b) = 0 THEN 1 ELSE 0

C11_DirectedBroadcastAddress ==
    [][ (Len(netlog') = Len(netlog) + 1 /\ netlog'[Len(netlog')].via = "iface") =>
            LET a == ifaces[i].addrs[j]
                d == netlog'[Len(netlog')].dst
            IN /\ netlog'[Len(netlog')].port = 9
               /\ IsDirectedBroadcast(d, Last4(a.ip), Last4(a.mask))
               /\ (Last4(a.ip) = <<192, 168, 1, 42>> /\ Last4(a.mask) = <<255, 255, 255, 0>>)
                     => d = <<192, 168, 1, 255>>
               /\ (Last4(a.ip) = <<10, 0, 0, 5>> /\ Last4(a.mask) = <<255, 0, 0, 0>>)
                     => d = <<10, 255, 255, 255>>
      ]_vars

C11_Witness ==
    /\ \E k \in IfaceAttempts : netlog[k].dst = <<10, 255, 255, 255>>
    /\ \E k \in IfaceAttempts : netlog[k].dst = <<172, 16, 15, 255>>
    /\ \E k \in IfaceAttempts : netlog[k].dst = <<192, 168, 1, 255>>

(***************************************************************************)
(* C12. A wake request whose machine name is not configured, or whose MAC  *)
(* text is malformed, ends at once with an error: no packet is built, and  *)
(* neither Send nor Broadcast is called, in handleWake and in the CLI.     *)
(***************************************************************************)
MalformedMacs == {MacShort, MacNonHex, MacMixedSep, MacBadSep, MacEmpty}
NameConfigured(name) == \E k \in 1 .. Len(cfg) : EqualFold(cfg[k].Name, name)
\* the first machine that carries the name
FirstNamed(name) ==
    cfg[CHOOSE k \in 1 .. Len(cfg) :
            /\ EqualFold(cfg[k].Name, name)
            /\ \A m \in 1 .. k - 1 : ~EqualFold(cfg[m].Name, name)]
NameInvalid(name) == ~NameConfigured(name) \/ FirstNamed(name).Mac \in MalformedMacs

InvalidWakeInput ==
    \/ req.kind = "web" /\ NameInvalid(req.name)
    \/ /\ req.kind = "cli" /\ req.nameFlag = Unset /\ req.macFlag # Unset
       /\ req.macFlag[1] \in MalformedMacs
    \/ /\ req.kind = "cli" /\ req.macFlag = Unset /\ req.nameFlag # Unset
       /\ NameInvalid(req.nameFlag[1])

NothingSent ==
    /\ packet = << >> /\ netlog = << >> /\ open = {}
    /\ ~SendReturned /\ ~BroadcastReturned

C12_InvalidInputRejected ==
    InvalidWakeInput =>
        /\ pc = "done"
        /\ response = IF req.kind = "web" THEN "400" ELSE "exit1"
        /\ NothingSent

C12_Witness ==
    /\ req.kind = "cli" /\ req.nameFlag = <<"laptop">> /\ req.macFlag = Unset
    /\ ~NameConfigured("laptop")
    /\ Len(cfg) > 0
    /\ pc = "done" /\ response = "exit1"

(***************************************************************************)
(* C13. The map a getMachinesStatus call returns depends only on the       *)
(* configuration and on the outcomes of the probes of that call: it holds  *)
(* the status computed in this call for every machine whose status was     *)
(* computed without error and nothing else, whatever an earlier call of    *)
(* the session returned.                                                   *)
(***************************************************************************)
\* the machines whose status this call computed without an error
Reported == { k \in Machines : TaskHasResult(k) /\ result[k].err = Nil }

HasWritten(k) == task[k] \in {"written", "unlocked", "done"} /\ result[k].err = Nil

Writers(n) == { k \in Machines : HasWritten(k) /\ cfg[k].Name = n }

C15_NoBatchAfterContextDone ==
    [][ctxDone => (cycle' = cycle /\ spc' # "spawn")]_vars

(***************************************************************************)
(* C16. Every socket Send or Broadcast opened is closed on every path: at  *)
(* most one socket is open at any time, it is the socket of the attempt in *)
(* progress and it is open only between its dial and the end of its write, *)
(* so the socket of one target is closed before the next is opened and     *)
(* none is open once Send or Broadcast has returned.                       *)
(***************************************************************************)
WritePending == pc \in {"s_write", "b_write", "b_fwrite"}

C16_SocketsClosed ==
    /\ Cardinality(open) <= 1
    /\ open \subseteq {Len(netlog)}
    /\ WritePending <=> open # {}
    /\ \A k \in open : netlog[k].dial = "ok" /\ netlog[k].write = "none"

\* Send's write failed, then Broadcast returned after a per-interface write
\* failed and a later per-interface attempt and the fallback attempt opened
\* their sockets
C16_Witness ==
    /\ pc = "done" /\ open = {}
    /\ \E k, m \in IfaceAttempts :
          /\ k < m
          /\ netlog[k].dial = "ok" /\ netlog[k].write = "err"
          /\ netlog[m].dial = "ok"
    /\ \E g \in GlobalAttempts : netlog[g].dial = "ok" /\ netlog[g].write = "err"
    /\ \E u \in UnicastAttempts : netlog[u].dial = "ok" /\ netlog[u].write = "err"

(***************************************************************************)
(* C17. getMachinesStatus returns only after every goroutine of the batch  *)
(* has finished, with a result or with an error, and no goroutine writes   *)
(* to the map after it has been returned: while a returned map is in the   *)
(* caller's hands every goroutine is done and the map is as returned.      *)
(***************************************************************************)
C17_ReturnAfterAllTasks ==
    returned # NotReturned =>
        /\ spawned = Len(cfg)
        /\ \A k \in Machines : task[k] = "done" /\ TaskHasResult(k)
        /\ statuses = returned[1]

\* a batch returned in which one goroutine ended on a probe error and
\* another one wrote its status
C17_Witness ==
    /\ returned # NotReturned
    /\ \E k, m \in Machines :
          /\ result[k].err # Nil /\ task[k] = "done"
          /\ result[m].err = Nil /\ task[m] = "done"
          /\ cfg[m].Name \in DOMAIN returned[1]

(***************************************************************************)
(* C18. In the interface phase of Broadcast exactly one send attempt is    *)
(* made for each IPv4 address of each interface that is up, not loopback,  *)
(* broadcast-capable and whose addresses could be read, in enumeration     *)
(* order, and none for any other interface or address; a failed attempt    *)
(* is not retried and does not keep the remaining attempts from being      *)
(* made.                                                                   *)
(***************************************************************************)
EligibleIface(f) == f.up /\ ~f.loopback /\ f.bcast /\ ~f.addrsErr

IsIPv4Net(a) ==
    /\ a.ipnet
    /\ \/ Len(a.ip) = 4
       \/ /\ Len(a.ip) = 16
          /\ \A k \in 1 .. 10 : a.ip[k] = 0
          /\ a.ip[11] = 255 /\ a.ip[12] = 255

RECURSIVE ExpectedPairs(_)
\* the (interface, IPv4 address) pairs of the eligible interfaces, in order
ExpectedPairs(fs) ==
    IF fs = << >> THEN << >>
    ELSE (IF EligibleIface(Head(fs)) THEN SelectSeq(Head(fs).addrs, IsIPv4Net)
          ELSE << >>) \o ExpectedPairs(Tail(fs))

IsIfaceAttempt(e) == e.via = "iface"

\* the per-interface attempts made so far, in order
IfaceLog == SelectSeq(netlog, IsIfaceAttempt)

LoopFinished == pc \in {"b_after", "b_fwrite", "after_bcast", "done"}

C18_OneAttemptPerPair ==
    Enumerated =>
        LET exp == ExpectedPairs(ifaces)
            got == IfaceLog
        IN /\ Len(got) <= Len(exp)
           /\ \A k \in 1 .. Len(got) :
                 /\ got[k].dst = BroadcastTarget(exp[k])
                 /\ got[k].port = WolPort
           /\ LoopFinished => Len(got) = Len(exp)

\* the loop finished over a skipped and an eligible interface with a
\* non-IPv4 address; the first of three attempts failed, the others were made
C18_Witness ==
    /\ Enumerated /\ LoopFinished
    /\ \E f \in 1 .. Len(ifaces) : ~EligibleIface(ifaces[f])
    /\ \E f \in 1 .. Len(ifaces) :
          EligibleIface(ifaces[f]) /\ \E a \in 1 .. Len(ifaces[f].addrs) :
              ~IsIPv4Net(ifaces[f].addrs[a])
    /\ Len(IfaceLog) >= 2
    /\ IfaceLog[1].dial = "err"
    /\ IfaceLog[2].dial = "ok" /\ IfaceLog[2].write = "err"

(***************************************************************************)
(* C19. At most one goroutine of a batch is between mu.Lock() and          *)
(* mu.Unlock(), and it is the one the mutex is held by, so two goroutines  *)
(* never write the map at the same time.                                   *)
(***************************************************************************)
InCritical == { k \in Machines : task[k] \in {"locked", "written"} }

C19_MutualExclusion ==
    /\ Cardinality(InCritical) <= 1
    /\ InCritical = IF mu = 0 THEN {} ELSE {mu}

\* one goroutine holds the lock while another is ready to take it
C19_Witness ==
    \E k, m \in Machines :
        /\ k # m
        /\ task[k] = "locked" /\ mu = k
        /\ task[m] = "got" /\ result[m].err = Nil

(***************************************************************************)
(* C20. Provided every probe eventually returns, every getMachinesStatus   *)
(* call eventually returns: every spawned goroutine signals completion     *)
(* exactly once on every path, also on the early return after a probe      *)
(* error, so the WaitGroup counter is the number of spawned goroutines     *)
(* that are not done, never negative, reaches zero, and the mutex is not   *)
(* held when the call returns.                                             *)
(***************************************************************************)
Unfinished == { k \in 1 .. spawned : task[k] # "done" }

CounterExact == wg = Cardinality(Unfinished) /\ wg >= 0

C20_CallReturns ==
    /\ [](CounterExact /\ (returned # NotReturned => wg = 0 /\ mu = 0))
    /\ (spc = "spawn") ~> (returned # NotReturned)

\* the call returned after one goroutine left early on a probe error and
\* another went through the lock
C20_Witness ==
    /\ returned # NotReturned /\ wg = 0 /\ mu = 0
    /\ spawned >= 2
    /\ \E k \in Machines : probes[k] # << >> /\ result[k].err # Nil
    /\ \E m \in Machines : probes[m] # << >> /\ result[m].err = Nil

====
